---- MODULE Spec2Model ----
(***************************************************************************)
(* Reactive props of a form field: createSubscriptions analyses every      *)
(* resolver of the subscriber field, pushes the initial value, and wires    *)
(* either a props-change observer (target field mounted) or a delegated    *)
(* listener on the target's registration event (target not mounted yet).   *)
(*                                                                         *)
(* A JavaScript string is a sequence of characters; the characters used    *)
(* here are the one-letter field names, the dot, and (as one unit each)     *)
(* the prop names and the 'registered' suffix, none of which contains a    *)
(* dot.                                                                    *)
(***************************************************************************)
EXTENDS Integers, Sequences, FiniteSets, TLC

VARIABLES
  phase,          \* "mounting" before createSubscriptions ran, "subscribed" after
  fieldProps,     \* the subscriber's props handed to createSubscriptions
  fields,         \* the fields tree handed to createSubscriptions
  formFields,     \* form.state.fields
  observers,      \* change observers made by createObserver, in creation order
  listeners,      \* delegated listeners on registration events, in creation order
  updateCalls,    \* every form.updateField call, in call order
  validateCalls,  \* every form.validateField call, in call order
  pending,        \* updateField calls whose promise has not resolved yet
  analyses,       \* every analyzeResolver call with its result, in call order
  nEvents,        \* number of events the form has emitted
  lastStep        \* the latest step taken and what the form emitted in it

vars == <<phase, fieldProps, fields, formFields, observers, listeners,
          updateCalls, validateCalls, pending, analyses, nEvents, lastStep>>

-----------------------------------------------------------------------------
(* Bounds *)

MaxCalls == 2     \* subscribe calls in the unconditional part of a resolver
MaxEvents == 2    \* events the form emits after createSubscriptions
MaxReanalyses == 1  \* registrations followed when only the analyses are checked

-----------------------------------------------------------------------------
(* Values *)

UNDEF == [undef |-> TRUE]
StrV(s) == [str |-> s]
MapV == [map |-> TRUE]
ListV(items) == [items |-> items]
PromiseV(v) == [promise |-> v]    \* a deferred object that will yield v

\* an Immutable Map with the entries m, and the plain object toJS() makes of it
ImmutableV(m) == [immutable |-> m]
toJS(v) == [plain |-> v.immutable]

\* JavaScript truthiness, as `!!v` computes it
Truthy(v) == IF "str" \in DOMAIN v THEN v.str # "" ELSE "undef" \notin DOMAIN v

\* `a !== b` on the values above
StrictNotEqual(a, b) == a # b

-----------------------------------------------------------------------------
(* Strings and paths *)

DOT == "."

SA == <<"a">>
SB == <<"b">>
SC == <<"c">>
SG == <<"g">>
SAC == <<"a", DOT, "c">>    \* the field name 'a.c'
PValue == <<"value">>
PExtra == <<"extra">>

IsPrefix(p, q) == Len(p) <= Len(q) /\ SubSeq(q, 1, Len(p)) = p

\* Array.prototype.join('.')
RECURSIVE Join(_)
Join(path) ==
  IF path = <<>> THEN <<>>
  ELSE IF Len(path) = 1 THEN path[1]
  ELSE path[1] \o <<DOT>> \o Join(Tail(path))

\* String.prototype.split('.')
RECURSIVE SplitFrom(_, _, _)
SplitFrom(s, cur, acc) ==
  IF s = <<>> THEN Append(acc, cur)
  ELSE IF Head(s) = DOT THEN SplitFrom(Tail(s), <<>>, Append(acc, cur))
  ELSE SplitFrom(Tail(s), Append(cur, Head(s)), acc)

Split(s) == SplitFrom(s, <<>>, <<>>)

Upper(c) ==
  CASE c = "a" -> "A" [] c = "b" -> "B" [] c = "c" -> "C" [] c = "g" -> "G"
    [] c = "registered" -> "Registered" [] OTHER -> c

Capitalize(s) == IF s = <<>> THEN s ELSE <<Upper(s[1])>> \o Tail(s)

\* camelize(...parts): the first part as it is, every later part capitalized
RECURSIVE CamelizeFrom(_, _)
CamelizeFrom(parts, first) ==
  IF parts = <<>> THEN <<>>
  ELSE (IF first THEN parts[1] ELSE Capitalize(parts[1]))
         \o CamelizeFrom(Tail(parts), FALSE)

camelize(parts) == CamelizeFrom(parts, TRUE)

fieldRegisteredEvent(targetPath) == camelize(Append(targetPath, <<"registered">>))

-----------------------------------------------------------------------------
(* The fields tree: an Immutable.Map of Maps, kept as the function from     *)
(* the key path of every leaf to its value.                                *)

EmptyTree == [p \in {} |-> UNDEF]

hasIn(tree, path) == \E q \in DOMAIN tree : IsPrefix(path, q)

getIn(tree, path) ==
  IF path \in DOMAIN tree THEN tree[path]
  ELSE IF hasIn(tree, path) THEN MapV
  ELSE UNDEF

\* tree.setIn(path, props): the Map `props` replaces whatever is at `path`
setIn(tree, path, props) ==
  LET kept == {q \in DOMAIN tree : ~IsPrefix(path, q)}
      added == {Append(path, k) : k \in DOMAIN props}
  IN [q \in kept \cup added |->
        IF q \in added THEN props[q[Len(q)]] ELSE tree[q]]

\* tree.setIn(path.concat(propName), value)
setLeaf(tree, path, value) ==
  [q \in DOMAIN tree \cup {path} |-> IF q = path THEN value ELSE tree[q]]

\* props.get(propName) on the Map of one field
propGet(props, propName) ==
  IF propName \in DOMAIN props THEN props[propName] ELSE UNDEF

\* the Map of one field as it stands in the tree
propsAt(tree, path) ==
  LET names == {q[Len(q)] : q \in {r \in DOMAIN tree :
                                     IsPrefix(path, r) /\ Len(r) = Len(path) + 1}}
  IN [k \in names |-> tree[Append(path, k)]]

-----------------------------------------------------------------------------
(* analyzeResolver *)

\* targetsMap[gluedPath], `undefined` when the key is missing
RECURSIVE targetsLookup(_, _)
targetsLookup(targetsMap, gluedPath) ==
  IF targetsMap = <<>> THEN UNDEF
  ELSE IF Head(targetsMap).key = gluedPath THEN ListV(Head(targetsMap).props)
  ELSE targetsLookup(Tail(targetsMap), gluedPath)

\* targetsMap[gluedPath] = nextProps: a new key goes last, an old key keeps its place
targetsAssign(targetsMap, gluedPath, nextProps) ==
  IF \E i \in 1..Len(targetsMap) : targetsMap[i].key = gluedPath
  THEN [i \in 1..Len(targetsMap) |->
          IF targetsMap[i].key = gluedPath
          THEN [key |-> gluedPath, props |-> nextProps]
          ELSE targetsMap[i]]
  ELSE Append(targetsMap, [key |-> gluedPath, props |-> nextProps])

includes(list, x) == \E i \in 1..Len(list) : list[i] = x

isValidKeyPathMutant(keyPath) == Len(keyPath) > 0

isValidKeyPath(keyPath) == Len(keyPath) > 1

isValidPropNameMutant(tree, fieldPath, propName) == TRUE

isValidPropName(tree, fieldPath, propName) ==
  IF hasIn(tree, fieldPath) THEN hasIn(tree, Append(fieldPath, propName)) ELSE TRUE

dedupSkipMutant(prevProps, propName) == FALSE

dedupSkip(prevProps, propName) == includes(prevProps, propName)

rejected(st, kind, keyPath) ==
  [ok |-> FALSE, targetsMap |-> st.targetsMap,
   warnings |-> Append(st.warnings, [kind |-> kind, keyPath |-> keyPath])]

\* targetsMap[gluedPath] || []
prevPropsOf(found) == IF "items" \in DOMAIN found THEN found.items ELSE <<>>

\* lines 51-57 of the callback: skip a prop already listed, else list it
recordProp(st, gluedPath, propName, prevProps) ==
  IF dedupSkip(prevProps, propName)
  THEN [ok |-> FALSE, targetsMap |-> st.targetsMap, warnings |-> st.warnings]
  ELSE [ok |-> TRUE,
        targetsMap |-> targetsAssign(st.targetsMap, gluedPath, Append(prevProps, propName)),
        warnings |-> st.warnings]

\* lines 44-57 of the callback
checkPropName(tree, st, keyPath, fieldPath, propName) ==
  IF ~isValidPropName(tree, fieldPath, propName)
  THEN rejected(st, "propName", keyPath)
  ELSE recordProp(st, Join(fieldPath), propName,
                  prevPropsOf(targetsLookup(st.targetsMap, Join(fieldPath))))

\* The callback analyzeResolver hands to generateSubscribe. st carries the
\* targetsMap and the diagnostics warn() printed so far.
subscribeCallback(tree, st, keyPath) ==
  IF ~isValidKeyPath(keyPath)
  THEN rejected(st, "keyPath", keyPath)
  ELSE checkPropName(tree, st, keyPath,
                     SubSeq(keyPath, 1, Len(keyPath) - 1), keyPath[Len(keyPath)])

resolvedMutant(tree, keyPath, r) ==
  [targetsMap |-> r.targetsMap, warnings |-> r.warnings,
   returned |-> getIn(tree, keyPath)]

\* lines 15-18: what subscribe returns once the callback has answered r
resolved(tree, keyPath, r) ==
  [targetsMap |-> r.targetsMap, warnings |-> r.warnings,
   returned |-> IF r.ok THEN getIn(tree, keyPath) ELSE UNDEF]

\* generateSubscribe(fields, callback)(...keyPath)
trackingSubscribe(tree, st, keyPath) ==
  resolved(tree, keyPath, subscribeCallback(tree, st, keyPath))

\* generateSubscribe(fields)(...keyPath)
plainSubscribe(tree, keyPath) == getIn(tree, keyPath)

\* the resolver has got r from subscribe
afterCall(st, r) ==
  [targetsMap |-> r.targetsMap, warnings |-> r.warnings,
   returned |-> Append(st.returned, r.returned)]

\* A resolver calls subscribe for every key path of `calls`; when the first
\* value it got is truthy it goes on with the key paths of `more`. It returns
\* the list of the values subscribe returned.
RECURSIVE runTracking(_, _, _)
runTracking(tree, st, calls) ==
  IF calls = <<>> THEN st
  ELSE runTracking(tree, afterCall(st, trackingSubscribe(tree, st, Head(calls))),
                   Tail(calls))

goesOn(resolver, returned) ==
  /\ resolver.more # <<>>
  /\ returned # <<>>
  /\ Truthy(returned[1])

runMore(resolver, tree, st) ==
  IF goesOn(resolver, st.returned) THEN runTracking(tree, st, resolver.more) ELSE st

freshTargetsMapMutant ==
  IF analyses = <<>> THEN <<>> ELSE analyses[Len(analyses)].result.targetsMap

\* const targetsMap = {}
freshTargetsMap == <<>>

dispatchTracking(resolver, tree) ==
  runMore(resolver, tree,
          runTracking(tree, [targetsMap |-> freshTargetsMap, warnings |-> <<>>,
                             returned |-> <<>>],
                      resolver.calls))

plainReads(tree, calls) == [i \in 1..Len(calls) |-> plainSubscribe(tree, calls[i])]

\* what the resolver hands back for the values it has read: the list of them,
\* or a deferred object that will yield the list
returnOf(resolver, returned) ==
  IF resolver.result = "deferred" THEN PromiseV(ListV(returned)) ELSE ListV(returned)

plainResult(resolver, first, rest) ==
  returnOf(resolver, IF goesOn(resolver, first) THEN first \o rest ELSE first)

dispatchPlain(resolver, tree) ==
  plainResult(resolver, plainReads(tree, resolver.calls), plainReads(tree, resolver.more))

\* the resolver throws once it has made its subscribe calls
throws(resolver) == resolver.result = "throws"

analysisOf(rxPropName, resolver, tree, st) ==
  [rxPropName |-> rxPropName, resolver |-> resolver, fields |-> tree,
   targetsMap |-> st.targetsMap, initialValue |-> returnOf(resolver, st.returned),
   returned |-> st.returned, warnings |-> st.warnings, threw |-> throws(resolver),
   fieldProps |-> ImmutableV(fieldProps)]

analyzeResolver(rxPropName, resolver, tree) ==
  analysisOf(rxPropName, resolver, tree, dispatchTracking(resolver, tree))

-----------------------------------------------------------------------------
(* The mutable world the handlers act on, threaded through them in the     *)
(* order the code runs them.                                               *)

World ==
  [formFields |-> formFields, observers |-> observers, listeners |-> listeners,
   updateCalls |-> updateCalls, pending |-> pending, analyses |-> analyses]

subscriberPath == fieldProps.fieldPath

\* the form holds the field's next props in its state
holdProps(w, path, props) == [w EXCEPT !.formFields = setIn(w.formFields, path, props)]

updateFieldMutant(w, fieldPath, rxPropName, value, origin, continuation) ==
  [w EXCEPT !.updateCalls = <<[fieldPath |-> fieldPath,
                               propsPatch |-> [name |-> rxPropName, value |-> value],
                               origin |-> origin]>> \o @,
            !.pending = <<[call |-> 1, then |-> continuation]>> \o @]

\* form.updateField({ fieldPath, propsPatch }): the call is recorded and its
\* promise stays pending until the form has applied the patch
updateField(w, fieldPath, rxPropName, value, origin, continuation) ==
  LET call == [fieldPath |-> fieldPath,
               propsPatch |-> [name |-> rxPropName, value |-> value],
               origin |-> origin]
      n == Len(w.updateCalls) + 1
  IN [w EXCEPT !.updateCalls = Append(@, call),
               !.pending = Append(@, [call |-> n, then |-> continuation])]

\* addPropsObserver(...).subscribe(handler): the subscription createObserver returns
createObserver(w, targetPath, targetProps, rxPropName, resolver, origin) ==
  [w EXCEPT !.observers = Append(@,
     [targetPath |-> targetPath, targetProps |-> targetProps,
      rxPropName |-> rxPropName, resolver |-> resolver,
      origin |-> origin, closed |-> FALSE])]

handedFieldPropsMutant(w) ==
  toJS(ImmutableV([fieldProps EXCEPT !.props = propsAt(w.formFields, fieldProps.fieldPath)]))

\* fieldProps: fieldProps.toJS(), of the Map createObserver was given
handedFieldProps(w) == toJS(ImmutableV(fieldProps))

shouldValidateParamMutant(flag) ==
  IF "undef" \in DOMAIN flag THEN FALSE ELSE flag.bool

\* ({ nextContextProps, shouldValidate = true }): the flag of the event, true
\* when the event carries none
shouldValidateParam(flag) ==
  IF "undef" \in DOMAIN flag THEN TRUE ELSE flag.bool

\* lines 91-102 of the handler, nextFields being the tree of line 89. The
\* resolver that throws makes the handler end before it calls anything.
resolveAndUpdate(w, id, event, nextFields) ==
  IF throws(w.observers[id].resolver) THEN w
  ELSE updateField(w, subscriberPath, w.observers[id].rxPropName,
                   dispatchPlain(w.observers[id].resolver, nextFields),
                   [kind |-> "observer", observer |-> id, synthetic |-> event.synthetic,
                    subscriberNow |-> propsAt(w.formFields, subscriberPath),
                    shouldValidate |-> event.shouldValidate,
                    fieldProps |-> handedFieldProps(w)],
                   [validate |-> shouldValidateParam(event.shouldValidate),
                    fields |-> nextFields])

nextFieldsOfMutant(tree, targetPath, nextContextProps) == tree

\* form.state.fields.setIn(targetPath, nextContextProps)
nextFieldsOf(tree, targetPath, nextContextProps) ==
  setIn(tree, targetPath, nextContextProps)

\* The handler createObserver subscribes, up to its await of form.updateField.
\* event.shouldValidate is UNDEF when the event carries no flag.
observerNext(w, id, event) ==
  resolveAndUpdate(w, id, event,
                   nextFieldsOf(w.formFields, w.observers[id].targetPath,
                                event.nextContextProps))

predicateMutant(propName, prevContextProps, nextContextProps) == TRUE

predicate(propName, prevContextProps, nextContextProps) ==
  StrictNotEqual(propGet(prevContextProps, propName), propGet(nextContextProps, propName))

\* addPropsObserver lets an emitted change through when the predicate holds
\* for one of the observed props
qualifies(o, prevContextProps, nextContextProps) ==
  /\ "items" \in DOMAIN o.targetProps
  /\ \E i \in 1..Len(o.targetProps.items) :
       predicate(o.targetProps.items[i], prevContextProps, nextContextProps)

shouldValidateOf(subscriberProps) ==
  Truthy(propGet(subscriberProps.props, subscriberProps.valuePropName))

unsubscribeMutant(w, id) == w

\* delegatedSubscription.unsubscribe()
unsubscribe(w, id) == [w EXCEPT !.listeners[id].closed = TRUE]

deliverSyntheticMutant(w, delegatedField) == w

\* subscription.next({ nextContextProps: delegatedField, shouldValidate })
deliverSynthetic(w, delegatedField) ==
  observerNext(w, Len(w.observers),
               [nextContextProps |-> delegatedField,
                shouldValidate |-> [bool |-> shouldValidateOf(fieldProps)],
                synthetic |-> TRUE])

\* lines 166-176 of the handler, a being the result of the re-analysis; the
\* handler ends at line 165 when the resolver throws
observeDelegated(w, id, delegatedField, a) ==
  IF a.threw THEN [w EXCEPT !.analyses = Append(@, [result |-> a, listener |-> id])]
  ELSE deliverSynthetic(
    createObserver([w EXCEPT !.analyses = Append(@, [result |-> a, listener |-> id])],
                   w.listeners[id].targetPath,
                   targetsLookup(a.targetsMap, w.listeners[id].gluedPath),
                   w.listeners[id].rxPropName, w.listeners[id].resolver, id),
    delegatedField)

\* the handler has been entered once more
entered(w, id) == [w EXCEPT !.listeners[id].fired = @ + 1]

\* The handler of a delegated listener
delegatedNext(w, id, delegatedField) ==
  observeDelegated(entered(unsubscribe(w, id), id), id, delegatedField,
                   analyzeResolver(w.listeners[id].rxPropName, w.listeners[id].resolver,
                                   w.formFields))

\* Observable.fromEvent(form.eventEmitter, fieldRegisteredEvent).subscribe(...)
addDelegated(w, gluedPath, targetPath, rxPropName, resolver) ==
  [w EXCEPT !.listeners = Append(@,
     [event |-> fieldRegisteredEvent(targetPath), gluedPath |-> gluedPath,
      targetPath |-> targetPath, rxPropName |-> rxPropName,
      resolver |-> resolver, closed |-> FALSE, fired |-> 0, seen |-> 0])]

isTargetMountedMutant(tree, targetPath) == TRUE

isTargetMounted(tree, targetPath) == hasIn(tree, targetPath)

\* the body of targetsPaths.forEach
wireTarget(w, gluedPath, targetPath, targetProps, rxPropName, resolver) ==
  IF isTargetMounted(fields, targetPath)
  THEN createObserver(w, targetPath, ListV(targetProps), rxPropName, resolver, 0)
  ELSE addDelegated(w, gluedPath, targetPath, rxPropName, resolver)

\* targetsPaths.forEach(...)
RECURSIVE wireTargets(_, _, _, _)
wireTargets(w, targetsMap, rxPropName, resolver) ==
  IF targetsMap = <<>> THEN w
  ELSE wireTargets(wireTarget(w, Head(targetsMap).key, Split(Head(targetsMap).key),
                              Head(targetsMap).props, rxPropName, resolver),
                   Tail(targetsMap), rxPropName, resolver)

pushInitialMutant(w, rxPropName, a) ==
  IF a.targetsMap = <<>> THEN w
  ELSE updateField(w, subscriberPath, rxPropName, a.initialValue,
                   [kind |-> "initial", observer |-> 0, synthetic |-> FALSE,
                    subscriberNow |-> propsAt(w.formFields, subscriberPath),
                    shouldValidate |-> UNDEF, fieldProps |-> ImmutableV(fieldProps)],
                   [validate |-> FALSE, fields |-> EmptyTree])

\* form.updateField({ fieldPath, propsPatch: { [rxPropName]: initialValue } })
pushInitial(w, rxPropName, a) ==
  updateField(w, subscriberPath, rxPropName, a.initialValue,
              [kind |-> "initial", observer |-> 0, synthetic |-> FALSE,
               subscriberNow |-> propsAt(w.formFields, subscriberPath),
               shouldValidate |-> UNDEF, fieldProps |-> ImmutableV(fieldProps)],
              [validate |-> FALSE, fields |-> EmptyTree])

\* the body of rxProps.forEach, a being the result of the analysis
eachTarget(w, rxPropName, resolver, a) ==
  wireTargets(pushInitial([w EXCEPT !.analyses = Append(@, [result |-> a, listener |-> 0])],
                          rxPropName, a),
              a.targetsMap, rxPropName, resolver)

\* the analysis threw: the exception leaves analyzeResolver, the forEach
\* callback and forEach itself
thrownOut(w, a) == [w EXCEPT !.analyses = Append(@, [result |-> a, listener |-> 0])]

\* one call of the forEach callback, a being the analysis of line 127
forEachTurn(w, rxPropName, resolver, a) ==
  IF a.threw THEN thrownOut(w, a) ELSE eachTarget(w, rxPropName, resolver, a)

\* rxProps.forEach(...): an exception ends the iteration
RECURSIVE eachRxProp(_, _)
eachRxProp(w, rxProps) ==
  IF rxProps = <<>> THEN w
  ELSE eachRxProp(forEachTurn(w, Head(rxProps).name, Head(rxProps).resolver,
                              analyzeResolver(Head(rxProps).name, Head(rxProps).resolver,
                                              fields)),
                  IF throws(Head(rxProps).resolver) THEN <<>> ELSE Tail(rxProps))

createSubscriptions(w) ==
  IF "undef" \in DOMAIN fieldProps.reactiveProps THEN w
  ELSE eachRxProp(w, fieldProps.reactiveProps.items)

-----------------------------------------------------------------------------
(* Inputs *)

RxLabel == <<"label">>
RxHint == <<"hint">>

TargetPaths == {<<SA>>, <<SG, SC>>}

KeyPaths == {<<>>, <<SA>>, <<SA, PValue>>, <<SA, PExtra>>, <<SG, SC, PValue>>}

SeqsUpTo(S, n) == UNION {[1..k -> S] : k \in 0..n}

\* a resolver: the subscribe calls it makes, the ones it goes on with, and
\* whether it returns the values read, returns them deferred, or throws
Resolver(calls, more) == [calls |-> calls, more |-> more, result |-> "value"]
Deferred(resolver) == [resolver EXCEPT !.result = "deferred"]
Throwing(resolver) == [resolver EXCEPT !.result = "throws"]

\* every resolver that makes up to MaxCalls subscribe calls, the same ones
\* whatever it gets from them
PlainResolvers == {Resolver(calls, <<>>) : calls \in SeqsUpTo(KeyPaths, MaxCalls)}

\* the resolver that reads a.value and, when it is truthy, g.c.value too
BranchingResolver == Resolver(<< <<SA, PValue>> >>, << <<SG, SC, PValue>> >>)

StaticResolver == Resolver(<<>>, <<>>)
ValueResolver == Resolver(<< <<SA, PValue>> >>, <<>>)

\* the resolvers followed through the events after createSubscriptions
EventResolvers ==
  {StaticResolver,
   ValueResolver,
   BranchingResolver,
   Resolver(<< <<SA>>, <<>> >>, <<>>),
   Resolver(<< <<SA, PValue>>, <<SA, PValue>> >>, <<>>),
   Resolver(<< <<SA, PExtra>> >>, <<>>),
   Resolver(<< <<SA, PValue>>, <<SA, PExtra>> >>, <<>>),
   Resolver(<< <<SA, PValue>>, <<SG, SC, PValue>> >>, <<>>)}

\* a field with two reactive props: one is static, the other reads a.value
PairResolvers == {<<StaticResolver, ValueResolver>>, <<ValueResolver, StaticResolver>>}

OneProp(resolvers) == {ListV(<< [name |-> RxLabel, resolver |-> r] >>) : r \in resolvers}

TwoProps ==
  {ListV(<< [name |-> RxLabel, resolver |-> pair[1]],
            [name |-> RxHint, resolver |-> pair[2]] >>) : pair \in PairResolvers}

\* fieldProps.get('reactiveProps') of the subscribers followed through events
ReactiveProps == {UNDEF} \cup OneProp(EventResolvers) \cup TwoProps

\* a field whose two reactive props have the same resolver
TwinProps ==
  ListV(<< [name |-> RxLabel, resolver |-> ValueResolver],
           [name |-> RxHint, resolver |-> ValueResolver] >>)

\* fieldProps.get('reactiveProps') of the subscribers whose analyses are checked
AnalysedReactiveProps ==
  OneProp(PlainResolvers \cup {BranchingResolver}) \cup TwoProps \cup {TwinProps}

\* the props a mounted target field may have
MountedProps(path) ==
  IF path = <<SA>>
  THEN {(PValue :> StrV("x")), (PValue :> StrV("x")) @@ (PExtra :> StrV("p"))}
  ELSE {(PValue :> StrV("x"))}

SubscriberValues == {StrV(""), StrV("x")}

\* the trees with the subscriber in them and every target mounted or not
RECURSIVE TreesOver(_, _)
TreesOver(paths, base) ==
  IF paths = {} THEN {base}
  ELSE LET path == CHOOSE q \in paths : TRUE
           rest == TreesOver(paths \ {path}, base)
       IN rest \cup {setIn(t, path, props) : t \in rest, props \in MountedProps(path)}

\* the changes of one prop the form may announce for a field: a target's
\* value becomes "y" and its extra prop "q", the subscriber's own value is
\* emptied or filled
ChangesOf(tree, path) ==
  IF path = <<SA>>
  THEN {[propName |-> PValue, value |-> StrV("y")],
        [propName |-> PExtra, value |-> StrV("q")]}
  ELSE IF path = <<SB>>
  THEN {[propName |-> PValue, value |-> v] :
          v \in SubscriberValues \ {getIn(tree, <<SB, PValue>>)}}
  ELSE {[propName |-> PValue, value |-> StrV("y")]}

-----------------------------------------------------------------------------
(* Behaviour *)

InitOver(reactiveProps, targetPaths) ==
  /\ phase = "mounting"
  /\ \E v \in SubscriberValues, rx \in reactiveProps :
       fieldProps = [fieldPath |-> <<SB>>, valuePropName |-> PValue,
                     props |-> (PValue :> v), reactiveProps |-> rx]
  /\ fields \in TreesOver(targetPaths,
                          setIn(EmptyTree, <<SB>>, fieldProps.props))
  /\ formFields = fields
  /\ observers = <<>>
  /\ listeners = <<>>
  /\ updateCalls = <<>>
  /\ validateCalls = <<>>
  /\ pending = <<>>
  /\ analyses = <<>>
  /\ nEvents = 0
  /\ lastStep = [kind |-> "none", path |-> <<>>]

InitWith(reactiveProps) == InitOver(reactiveProps, TargetPaths)

Init == InitWith(ReactiveProps)

AnalysisInit == InitWith(AnalysedReactiveProps)

Commit(w) ==
  /\ formFields' = w.formFields
  /\ observers' = w.observers
  /\ listeners' = w.listeners
  /\ updateCalls' = w.updateCalls
  /\ pending' = w.pending
  /\ analyses' = w.analyses

\* The form calls createSubscriptions for the field it is registering.
CreateSubscriptions ==
  /\ phase = "mounting"
  /\ phase' = "subscribed"
  /\ Commit(createSubscriptions(World))
  /\ lastStep' = [kind |-> "createSubscriptions", path |-> subscriberPath]
  /\ UNCHANGED <<fieldProps, fields, validateCalls, nEvents>>

\* the listener i has seen one more emission of its event
seenBy(w, i, event) ==
  IF w.listeners[i].event = event THEN [w EXCEPT !.listeners[i].seen = @ + 1] ELSE w

\* eventEmitter.emit(event, delegatedField): the listeners run in the order
\* they were added
RECURSIVE emitRegistered(_, _, _, _)
emitRegistered(w, i, event, delegatedField) ==
  IF i > Len(w.listeners) THEN w
  ELSE emitRegistered(
         seenBy(IF ~w.listeners[i].closed /\ w.listeners[i].event = event
                THEN delegatedNext(w, i, delegatedField) ELSE w,
                i, event),
         i + 1, event, delegatedField)

\* A field mounts: the form puts it into its state and emits the field's
\* registration event with the field's props.
FieldRegistered(path, props) ==
  /\ phase = "subscribed"
  /\ nEvents < MaxEvents
  /\ Commit(emitRegistered(holdProps(World, path, props), 1,
                           fieldRegisteredEvent(path), props))
  /\ nEvents' = nEvents + 1
  /\ lastStep' = [kind |-> "registered", path |-> path]
  /\ UNCHANGED <<phase, fieldProps, fields, validateCalls>>

isOpenMutant(o) == TRUE

\* a subscription that was unsubscribed gets no more events
isOpen(o) == ~o.closed

\* eventEmitter.emit of a props change: every open observer of the field
\* whose observed props changed runs its handler
RECURSIVE emitChange(_, _, _, _, _, _)
emitChange(w, i, path, prevContextProps, nextContextProps, flag) ==
  IF i > Len(w.observers) THEN w
  ELSE emitChange(
         IF /\ isOpen(w.observers[i])
            /\ w.observers[i].targetPath = path
            /\ qualifies(w.observers[i], prevContextProps, nextContextProps)
         THEN observerNext(w, i, [nextContextProps |-> nextContextProps,
                                  shouldValidate |-> flag, synthetic |-> FALSE])
         ELSE w,
         i + 1, path, prevContextProps, nextContextProps, flag)

\* A prop of a mounted field changes: the form emits the change with the
\* field's previous and next props, then holds the next props in its state.
FieldChange(path, propName, value, flag) ==
  /\ phase = "subscribed"
  /\ nEvents < MaxEvents
  /\ hasIn(formFields, path)
  /\ Commit(holdProps(emitChange(World, 1, path, propsAt(formFields, path),
                                 (propName :> value) @@ propsAt(formFields, path), flag),
                      path, (propName :> value) @@ propsAt(formFields, path)))
  /\ lastStep' = [kind |-> "change", path |-> path]
  /\ nEvents' = nEvents + 1
  /\ UNCHANGED <<phase, fieldProps, fields, validateCalls>>

\* The promise of a form.updateField call resolves: the form has applied the
\* patch to the field, and the handler awaiting it goes on to validateField.
UpdateFieldResolved(i) ==
  /\ i \in 1..Len(pending)
  /\ LET p == pending[i]
         call == updateCalls[p.call]
         nextFormFields == setLeaf(formFields,
                                   Append(call.fieldPath, call.propsPatch.name),
                                   call.propsPatch.value)
         updatedFieldProps == propsAt(nextFormFields, call.fieldPath)
     IN /\ formFields' = nextFormFields
        /\ validateCalls' =
             IF p.then.validate
             THEN Append(validateCalls,
                         [force |-> TRUE, fieldPath |-> subscriberPath,
                          fieldProps |-> updatedFieldProps, forceProps |-> TRUE,
                          fields |-> p.then.fields, call |-> p.call])
             ELSE validateCalls
        /\ lastStep' = [kind |-> "resolved", path |-> call.fieldPath]
  /\ pending' = SubSeq(pending, 1, i - 1) \o SubSeq(pending, i + 1, Len(pending))
  /\ UNCHANGED <<phase, fieldProps, fields, observers, listeners, updateCalls,
                 analyses, nEvents>>

EventFlags == {UNDEF, [bool |-> FALSE]}

Next ==
  \/ CreateSubscriptions
  \/ \E path \in TargetPaths :
       \E props \in MountedProps(path) : FieldRegistered(path, props)
  \/ \E path \in TargetPaths \cup {<<SB>>}, flag \in EventFlags :
       \E c \in ChangesOf(formFields, path) : FieldChange(path, c.propName, c.value, flag)
  \/ \E i \in 1..Len(pending) : UpdateFieldResolved(i)

Spec == Init /\ [][Next]_vars

\* The analyses alone: createSubscriptions for every resolver of up to
\* MaxCalls subscribe calls, and the re-analyses on up to MaxReanalyses
\* registrations.
Reanalysis(path, props) ==
  /\ nEvents < MaxReanalyses
  /\ FieldRegistered(path, props)

AnalysisNext ==
  \/ CreateSubscriptions
  \/ \E path \in TargetPaths :
       \E props \in MountedProps(path) : Reanalysis(path, props)

AnalysisSpec == AnalysisInit /\ [][AnalysisNext]_vars

\* The subscribers whose resolver returns a deferred object.
DeferredReactiveProps == OneProp({Deferred(ValueResolver), Deferred(BranchingResolver)})

DeferredInit == InitWith(DeferredReactiveProps)

DeferredSpec == DeferredInit /\ [][Next]_vars

\* The holder of a change observer's subscription unsubscribes it.
TearDown(i) ==
  /\ phase = "subscribed"
  /\ i \in 1..Len(observers)
  /\ ~observers[i].closed
  /\ observers' = [observers EXCEPT ![i].closed = TRUE]
  /\ lastStep' = [kind |-> "teardown", path |-> observers[i].targetPath]
  /\ UNCHANGED <<phase, fieldProps, fields, formFields, listeners, updateCalls,
                 validateCalls, pending, analyses, nEvents>>

TeardownReactiveProps ==
  OneProp({ValueResolver, Resolver(<< <<SA, PValue>>, <<SA, PExtra>> >>, <<>>)})

TeardownInit == InitWith(TeardownReactiveProps)

TeardownNext ==
  \/ Next
  \/ \E i \in 1..Len(observers) : TearDown(i)

TeardownSpec == TeardownInit /\ [][TeardownNext]_vars

\* The forms with a field named 'a.c' and a field named 'c' in the group 'a'.
DottedTargetPaths == {<<SAC>>, <<SA, SC>>}

DottedReactiveProps ==
  OneProp({Resolver(<< <<SAC, PValue>> >>, <<>>),
           Resolver(<< <<SA, SC, PValue>> >>, <<>>),
           Resolver(<< <<SAC, PValue>>, <<SA, SC, PValue>> >>, <<>>)})

DottedInit == InitOver(DottedReactiveProps, DottedTargetPaths)

DottedNext ==
  \/ CreateSubscriptions
  \/ \E path \in DottedTargetPaths :
       \E props \in MountedProps(path) : FieldRegistered(path, props)
  \/ \E path \in DottedTargetPaths \cup {<<SB>>}, flag \in EventFlags :
       \E c \in ChangesOf(formFields, path) : FieldChange(path, c.propName, c.value, flag)
  \/ \E i \in 1..Len(pending) : UpdateFieldResolved(i)

DottedSpec == DottedInit /\ [][DottedNext]_vars

\* The subscribers with two reactive props of which one has a resolver that
\* throws.
FailingPairs ==
  {<<Throwing(StaticResolver), ValueResolver>>,
   <<ValueResolver, Throwing(StaticResolver)>>,
   <<Throwing(ValueResolver), Resolver(<< <<SG, SC, PValue>> >>, <<>>)>>}

FailingReactiveProps ==
  {ListV(<< [name |-> RxLabel, resolver |-> pair[1]],
            [name |-> RxHint, resolver |-> pair[2]] >>) : pair \in FailingPairs}

FailingInit == InitWith(FailingReactiveProps)

FailingSpec == FailingInit /\ [][Next]_vars

-----------------------------------------------------------------------------
(* Properties *)

\* the analyses createSubscriptions itself ran, one for every reactive prop
InitialAnalyses == {k \in 1..Len(analyses) : analyses[k].listener = 0}

\* the key paths a resolver subscribed to in the analysis a, in call order
CallsMade(a) ==
  IF goesOn(a.resolver, SubSeq(a.returned, 1, Len(a.resolver.calls)))
  THEN a.resolver.calls \o a.resolver.more
  ELSE a.resolver.calls

ObserversOf(obs, rxPropName, targetPath) ==
  {i \in 1..Len(obs) : obs[i].rxPropName = rxPropName /\ obs[i].targetPath = targetPath}

ListenersOf(rxPropName, targetPath) ==
  {i \in 1..Len(listeners) :
     listeners[i].rxPropName = rxPropName /\ listeners[i].targetPath = targetPath}

\* the updateField calls an observer made by the delegated listener i issued
\* for the synthetic event
SyntheticCallsOf(calls, obs, i) ==
  {n \in 1..Len(calls) :
     /\ calls[n].origin.kind = "observer"
     /\ calls[n].origin.synthetic
     /\ obs[calls[n].origin.observer].origin = i}

\* C1: once createSubscriptions has returned, every target key of every
\* reactive prop's dependency map has a change observer if the target was in
\* the `fields` tree handed in; otherwise it has a listener on the target's
\* registration event, and as long as that event has not been emitted the
\* listener is open and no change observer of that prop exists for the target.
C1_ObserverOrPendingListener ==
  phase = "subscribed" =>
    \A k \in InitialAnalyses :
      LET a == analyses[k].result IN
      \A j \in 1..Len(a.targetsMap) :
        LET targetPath == Split(a.targetsMap[j].key) IN
        IF hasIn(fields, targetPath)
        THEN /\ \E i \in ObserversOf(observers, a.rxPropName, targetPath) :
                  /\ observers[i].origin = 0
                  /\ observers[i].targetProps = ListV(a.targetsMap[j].props)
             /\ ListenersOf(a.rxPropName, targetPath) = {}
        ELSE /\ Cardinality(ListenersOf(a.rxPropName, targetPath)) = 1
             /\ \A i \in ListenersOf(a.rxPropName, targetPath) :
                  /\ listeners[i].event = fieldRegisteredEvent(targetPath)
                  /\ listeners[i].seen = 0 =>
                       /\ ~listeners[i].closed
                       /\ ObserversOf(observers, a.rxPropName, targetPath) = {}

\* C1 witness: one reactive prop with an observer on a mounted target and a
\* still pending listener for a target that is not mounted
C1_Witness ==
  /\ phase = "subscribed"
  /\ \E i \in 1..Len(listeners) :
       /\ listeners[i].seen = 0
       /\ ~listeners[i].closed
       /\ ~hasIn(fields, listeners[i].targetPath)
       /\ \E o \in 1..Len(observers) :
            /\ observers[o].origin = 0
            /\ observers[o].rxPropName = listeners[i].rxPropName
            /\ hasIn(fields, observers[o].targetPath)

\* C2: the emission of the registration event of a target that was not
\* mounted when createSubscriptions ran makes every listener waiting for it
\* issue exactly one updateField call, for the subscriber's path, whose patch
\* gives the reactive prop the value the resolver has on form.state.fields
\* with the registered field's props at the target path; no other updateField
\* call is issued in that step.
C2_Step ==
  (lastStep'.kind = "registered" /\ nEvents' = nEvents + 1) =>
    LET path == lastStep'.path
        hit == {i \in 1..Len(listeners) :
                  ~listeners[i].closed /\ listeners[i].event = fieldRegisteredEvent(path)}
        new == (Len(updateCalls) + 1)..Len(updateCalls')
        nextFields == setIn(formFields, path, propsAt(formFields', path))
    IN /\ Cardinality(new) = Cardinality(hit)
       /\ SubSeq(updateCalls', 1, Len(updateCalls)) = updateCalls
       /\ \A i \in hit :
            /\ ~hasIn(fields, listeners[i].targetPath)
            /\ Cardinality(SyntheticCallsOf(updateCalls', observers', i) \cap new) = 1
            /\ \A n \in SyntheticCallsOf(updateCalls', observers', i) \cap new :
                 /\ updateCalls'[n].fieldPath = fieldProps.fieldPath
                 /\ updateCalls'[n].propsPatch =
                      [name |-> listeners[i].rxPropName,
                       value |-> dispatchPlain(listeners[i].resolver, nextFields)]

C2_OneUpdateOnRegistration == [][C2_Step]_vars

\* C2 witness: a.value was not readable at createSubscriptions time and the
\* updateField call made on a's registration carries the registered value
C2_Witness ==
  /\ lastStep.kind = "registered"
  /\ \E i \in 1..Len(listeners) :
       /\ listeners[i].fired = 1
       /\ \E n \in SyntheticCallsOf(updateCalls, observers, i) :
            /\ updateCalls[n].propsPatch.value.items # <<>>
            /\ updateCalls[n].propsPatch.value.items[1] = StrV("x")
            /\ \E m \in 1..Len(updateCalls) :
                 /\ updateCalls[m].origin.kind = "initial"
                 /\ updateCalls[m].propsPatch.name = updateCalls[n].propsPatch.name
                 /\ updateCalls[m].propsPatch.value.items[1] = UNDEF

\* C3: a delegated listener handles its registration event at most once:
\* however often the event has been emitted, the listener's handler ran once,
\* the listener is closed, and it made exactly one change observer and
\* delivered exactly one synthetic event to it.
C3_AtMostOnce ==
  \A i \in 1..Len(listeners) :
    /\ listeners[i].fired <= 1
    /\ listeners[i].seen >= 1 =>
         /\ listeners[i].fired = 1
         /\ listeners[i].closed
    /\ Cardinality({o \in 1..Len(observers) : observers[o].origin = i}) = listeners[i].fired
    /\ Cardinality(SyntheticCallsOf(updateCalls, observers, i)) = listeners[i].fired

\* C3 witness: the event was emitted a second time while the updateField
\* call of the first handling was still pending
C3_Witness ==
  \E i \in 1..Len(listeners) :
    /\ listeners[i].seen = 2
    /\ \E n \in SyntheticCallsOf(updateCalls, observers, i) :
         \E q \in 1..Len(pending) : pending[q].call = n

\* the subscriber's own value, by its valuePropName, in the given props
ValueIn(props) == propGet(props, fieldProps.valuePropName)

\* the validateField calls that followed the updateField call n
ValidationsOf(n) == {v \in 1..Len(validateCalls) : validateCalls[v].call = n}

\* C4 as stated: after a delegated target registered, validateField is called
\* for the subscriber only if the subscriber's own value in form.state.fields
\* was non-empty at the moment of the registration event.
C4_ValidateOnCurrentValue ==
  \A i \in 1..Len(listeners) :
    \A n \in SyntheticCallsOf(updateCalls, observers, i) :
      ValidationsOf(n) # {} => Truthy(ValueIn(updateCalls[n].origin.subscriberNow))

\* C5: createSubscriptions calls updateField exactly once for every declared
\* reactive prop, in declaration order, with the subscriber's fieldPath and
\* the patch {rxPropName: initialValue of that prop's analysis}, whether or
\* not the analysis found a dependency; without reactiveProps nothing is
\* called, observed or listened to.
InitialCalls == SelectSeq(updateCalls, LAMBDA c : c.origin.kind = "initial")

C5_InitialPush ==
  phase = "subscribed" =>
    IF "undef" \in DOMAIN fieldProps.reactiveProps
    THEN updateCalls = <<>> /\ observers = <<>> /\ listeners = <<>> /\ analyses = <<>>
    ELSE LET rxProps == fieldProps.reactiveProps.items IN
         /\ Len(InitialCalls) = Len(rxProps)
         /\ Cardinality(InitialAnalyses) = Len(rxProps)
         /\ \A k \in 1..Len(rxProps) :
              /\ InitialCalls[k].fieldPath = fieldProps.fieldPath
              /\ InitialCalls[k].propsPatch.name = rxProps[k].name
              /\ \E m \in InitialAnalyses :
                   /\ analyses[m].result.rxPropName = rxProps[k].name
                   /\ analyses[m].result.resolver = rxProps[k].resolver
                   /\ analyses[m].result.fields = fields
                   /\ InitialCalls[k].propsPatch.value = analyses[m].result.initialValue

\* C5 witness: two reactive props, one of them without any dependency, and
\* both pushed
C5_Witness ==
  /\ phase = "subscribed"
  /\ Len(InitialCalls) = 2
  /\ \E m \in InitialAnalyses : analyses[m].result.targetsMap = <<>>
  /\ \E m \in InitialAnalyses : analyses[m].result.targetsMap # <<>>

\* how often propName is listed under the key gluedPath
Listed(targetsMap, gluedPath, propName) ==
  Cardinality({<<i, j>> \in (1..Len(targetsMap)) \X (1..MaxCalls + 2) :
                 /\ targetsMap[i].key = gluedPath
                 /\ j <= Len(targetsMap[i].props)
                 /\ targetsMap[i].props[j] = propName})

\* a subscribe call the analysis accepts: a key path of two segments or more
\* whose last segment is a prop of the target, or whose target is not mounted
Accepted(tree, keyPath) ==
  /\ Len(keyPath) > 1
  /\ LET fieldPath == SubSeq(keyPath, 1, Len(keyPath) - 1)
     IN hasIn(tree, fieldPath) => hasIn(tree, keyPath)

\* C6: no dependency map lists a prop name twice under one target path, and
\* every accepted (target path, prop name) a resolver subscribed to, once or
\* repeatedly, is listed exactly once.
C6_NoDuplicateProps ==
  \A k \in 1..Len(analyses) :
    LET a == analyses[k].result
        calls == CallsMade(a)
    IN /\ \A i, j \in 1..Len(a.targetsMap) :
            a.targetsMap[i].key = a.targetsMap[j].key => i = j
       /\ \A i \in 1..Len(a.targetsMap) :
            \A x, y \in 1..Len(a.targetsMap[i].props) :
              a.targetsMap[i].props[x] = a.targetsMap[i].props[y] => x = y
       /\ \A c \in 1..Len(calls) :
            Accepted(a.fields, calls[c]) =>
              Listed(a.targetsMap, Join(SubSeq(calls[c], 1, Len(calls[c]) - 1)),
                     calls[c][Len(calls[c])]) = 1

\* C6 witness: a resolver subscribed twice to the same key path
C6_Witness ==
  \E k \in 1..Len(analyses) :
    LET calls == CallsMade(analyses[k].result)
    IN /\ Len(calls) = 2
       /\ calls[1] = calls[2]
       /\ Accepted(analyses[k].result.fields, calls[1])
       /\ Len(analyses[k].result.targetsMap) = 1
       /\ Len(analyses[k].result.targetsMap[1].props) = 1

\* a subscribe call that names a prop a mounted target does not have
Undeclared(tree, keyPath) ==
  /\ Len(keyPath) > 1
  /\ hasIn(tree, SubSeq(keyPath, 1, Len(keyPath) - 1))
  /\ ~hasIn(tree, keyPath)

Warned(a, kind, keyPath) ==
  \E x \in 1..Len(a.warnings) :
    a.warnings[x].kind = kind /\ a.warnings[x].keyPath = keyPath

WithoutShortCalls(resolver) ==
  [resolver EXCEPT !.calls = SelectSeq(resolver.calls, LAMBDA keyPath : Len(keyPath) > 1)]

\* C8: in an analysis every subscribe call with a key path of length 0 or 1
\* returns undefined and is flagged, and the dependency map is the one the
\* resolver's other calls alone would have made: no key stands for an empty
\* field path.
C8_ShortKeyPathRejected ==
  \A k \in 1..Len(analyses) :
    LET a == analyses[k].result
        calls == CallsMade(a)
    IN /\ \A c \in 1..Len(calls) :
            Len(calls[c]) <= 1 =>
              /\ a.returned[c] = UNDEF
              /\ Warned(a, "keyPath", calls[c])
       /\ \A i \in 1..Len(a.targetsMap) : a.targetsMap[i].key # <<>>
       /\ a.resolver.more = <<>> =>
            a.targetsMap = dispatchTracking(WithoutShortCalls(a.resolver), a.fields).targetsMap

\* C8 witness: a resolver subscribed to a.value and then to the one-segment
\* key path `a` of the mounted field a; only a.value is in the map
C8_Witness ==
  \E k \in 1..Len(analyses) :
    LET a == analyses[k].result
    IN /\ CallsMade(a) = << <<SA, PValue>>, <<SA>> >>
       /\ hasIn(a.fields, <<SA>>)
       /\ a.returned[1] = StrV("x")
       /\ a.returned[2] = UNDEF
       /\ a.targetsMap = << [key |-> SA, props |-> <<PValue>>] >>

\* C9: a reactive prop whose resolver made no subscribe call with a key path
\* of two segments or more has an empty dependency map, never gets a change
\* observer or a delegated listener, and the only updateField call ever made
\* for it is the initial one.
C9_StaticPropHasNoSubscriptions ==
  \A k \in InitialAnalyses :
    LET a == analyses[k].result
    IN (\A c \in 1..Len(CallsMade(a)) : Len(CallsMade(a)[c]) <= 1) =>
         /\ a.targetsMap = <<>>
         /\ \A i \in 1..Len(observers) : observers[i].rxPropName # a.rxPropName
         /\ \A i \in 1..Len(listeners) : listeners[i].rxPropName # a.rxPropName
         /\ Cardinality({n \in 1..Len(updateCalls) :
                           updateCalls[n].propsPatch.name = a.rxPropName}) = 1
         /\ \A n \in 1..Len(updateCalls) :
              updateCalls[n].propsPatch.name = a.rxPropName =>
                /\ updateCalls[n].origin.kind = "initial"
                /\ updateCalls[n].propsPatch.value = a.initialValue

\* C9 witness: the resolver only made calls with short key paths, the target
\* named in them is mounted and has changed since
C9_Witness ==
  /\ lastStep.kind = "change"
  /\ lastStep.path = <<SA>>
  /\ \E k \in InitialAnalyses :
       /\ CallsMade(analyses[k].result) = << <<SA>>, <<>> >>
       /\ hasIn(analyses[k].result.fields, <<SA>>)
       /\ Len(updateCalls) = 1

\* C10: when the form announces a change of a field, an open change observer
\* of that field re-resolves and calls updateField exactly if one of the props
\* it tracks differs between the previous and the next props; a change of
\* untracked props only makes it call nothing. validateField is not called in
\* the step of the announcement.
Differs(o, prevContextProps, nextContextProps) ==
  /\ "items" \in DOMAIN o.targetProps
  /\ \E x \in 1..Len(o.targetProps.items) :
       propGet(prevContextProps, o.targetProps.items[x])
         # propGet(nextContextProps, o.targetProps.items[x])

C10_Step ==
  (lastStep'.kind = "change" /\ nEvents' = nEvents + 1) =>
    LET path == lastStep'.path
        prevContextProps == propsAt(formFields, path)
        nextContextProps == propsAt(formFields', path)
        new == (Len(updateCalls) + 1)..Len(updateCalls')
    IN /\ observers' = observers
       /\ validateCalls' = validateCalls
       /\ SubSeq(updateCalls', 1, Len(updateCalls)) = updateCalls
       /\ \A n \in new : updateCalls'[n].origin.kind = "observer"
       /\ \A i \in 1..Len(observers) :
            LET by == {n \in new : updateCalls'[n].origin.observer = i}
            IN IF /\ ~observers[i].closed
                  /\ observers[i].targetPath = path
                  /\ Differs(observers[i], prevContextProps, nextContextProps)
               THEN /\ Cardinality(by) = 1
                    /\ \A n \in by :
                         updateCalls'[n].propsPatch.name = observers[i].rxPropName
               ELSE by = {}

C10_OnlyTrackedPropsTrigger == [][C10_Step]_vars

\* C10 witness: the untracked prop `extra` of the field a changed while an
\* observer tracking only `value` was open, and nothing but the initial push
\* has been called
C10_Witness ==
  /\ lastStep.kind = "change"
  /\ lastStep.path = <<SA>>
  /\ nEvents = 1
  /\ getIn(formFields, <<SA, PExtra>>) = StrV("q")
  /\ \E i \in 1..Len(observers) :
       /\ observers[i].targetPath = <<SA>>
       /\ observers[i].targetProps = ListV(<<PValue>>)
       /\ ~observers[i].closed
  /\ \A n \in 1..Len(updateCalls) : updateCalls[n].origin.kind = "initial"

\* C11 as stated: on a change event the resolver's result is awaited before
\* the write-back, so no updateField call of a change observer carries the
\* deferred object the resolver returned; its patch holds the value the
\* deferred object yields.
C11_ResolvedValueWrittenBack ==
  \A n \in 1..Len(updateCalls) :
    updateCalls[n].origin.kind = "observer" =>
      "promise" \notin DOMAIN updateCalls[n].propsPatch.value

\* the updateField calls whose promise has resolved
Resolved(n) == \A q \in 1..Len(pending) : pending[q].call # n

\* the event that caused the updateField call c asked for validation
AskedToValidate(c) ==
  /\ c.origin.kind = "observer"
  /\ c.origin.shouldValidate \in {UNDEF, [bool |-> TRUE]}

\* C12: validateField is called only in the step in which the promise of an
\* observer's updateField call resolves, and then exactly if the event that
\* caused the call had shouldValidate true or carried no flag; the call has
\* force and forceProps true, the subscriber's fieldPath, the subscriber's
\* props as that updateField left them (with the patch applied) and the tree
\* the handler built for that event. Every other step calls no validateField.
C12_Step ==
  IF lastStep'.kind = "resolved" /\ Len(pending') < Len(pending)
  THEN \E i \in 1..Len(pending) :
         LET n == pending[i].call
             c == updateCalls[n]
         IN /\ pending' = SubSeq(pending, 1, i - 1) \o SubSeq(pending, i + 1, Len(pending))
            /\ IF AskedToValidate(c)
               THEN /\ validateCalls' =
                         Append(validateCalls,
                                [force |-> TRUE, fieldPath |-> fieldProps.fieldPath,
                                 fieldProps |-> propsAt(formFields', fieldProps.fieldPath),
                                 forceProps |-> TRUE, fields |-> pending[i].then.fields,
                                 call |-> n])
                    /\ propGet(propsAt(formFields', fieldProps.fieldPath),
                               c.propsPatch.name) = c.propsPatch.value
                    /\ getIn(pending[i].then.fields,
                             observers[c.origin.observer].targetPath) = MapV
               ELSE validateCalls' = validateCalls
  ELSE validateCalls' = validateCalls

C12_ValidateAfterUpdate == [][C12_Step]_vars

\* C12 witness: two change events of one observer, the first with
\* shouldValidate false and the second without a flag, whose updateField
\* calls have both resolved: only the second was followed by validateField
C12_Witness ==
  /\ lastStep.kind = "resolved"
  /\ pending = <<>>
  /\ Len(validateCalls) = 1
  /\ \E m, n \in 1..Len(updateCalls) :
       /\ m < n
       /\ updateCalls[m].origin.kind = "observer"
       /\ updateCalls[n].origin.kind = "observer"
       /\ updateCalls[m].origin.observer = updateCalls[n].origin.observer
       /\ updateCalls[m].origin.shouldValidate = [bool |-> FALSE]
       /\ updateCalls[n].origin.shouldValidate = UNDEF
       /\ validateCalls[1].call = n

\* C13 as stated: a resolver that throws during createSubscriptions does not
\* keep the other reactive props of the field from being processed: every
\* declared prop whose resolver does not throw gets its initial updateField
\* call and, for every target its resolver reads, an observer or a listener.
C13_FailureIsolated ==
  (phase = "subscribed" /\ "items" \in DOMAIN fieldProps.reactiveProps) =>
    \A k \in 1..Len(fieldProps.reactiveProps.items) :
      LET rx == fieldProps.reactiveProps.items[k]
          a == analyzeResolver(rx.name, rx.resolver, fields)
      IN ~throws(rx.resolver) =>
           /\ \E n \in 1..Len(updateCalls) :
                /\ updateCalls[n].origin.kind = "initial"
                /\ updateCalls[n].propsPatch.name = rx.name
           /\ \A j \in 1..Len(a.targetsMap) :
                \/ ObserversOf(observers, rx.name, Split(a.targetsMap[j].key)) # {}
                \/ ListenersOf(rx.name, Split(a.targetsMap[j].key)) # {}

\* the updateField calls the change observer o has issued
CallsBy(calls, o) ==
  {n \in 1..Len(calls) : calls[n].origin.kind = "observer" /\ calls[n].origin.observer = o}

\* C14: a change observer that was unsubscribed stays so and issues no
\* updateField call for any later event, whatever changes; the unsubscribing
\* itself cancels nothing: the calls in flight stay pending and resolve (and
\* validate) like any other.
C14_Step ==
  /\ \A o \in 1..Len(observers) :
       observers[o].closed =>
         /\ observers'[o].closed
         /\ CallsBy(updateCalls', o) = CallsBy(updateCalls, o)
  /\ lastStep'.kind = "teardown" =>
       /\ pending' = pending
       /\ updateCalls' = updateCalls
       /\ validateCalls' = validateCalls
  /\ (lastStep'.kind = "resolved" /\ Len(pending') < Len(pending)) =>
       \E i \in 1..Len(pending) :
         /\ pending' = SubSeq(pending, 1, i - 1) \o SubSeq(pending, i + 1, Len(pending))
         /\ pending[i].then.validate => Len(validateCalls') = Len(validateCalls) + 1

C14_NoEventsAfterTeardown == [][C14_Step]_vars

\* C14 witness: an observer of a.value and a.extra issued a call for one
\* change of a, was unsubscribed, issued none for the other change of a, and
\* the call in flight has resolved and validated since
C14_Witness ==
  /\ lastStep.kind = "resolved"
  /\ getIn(formFields, <<SA, PValue>>) = StrV("y")
  /\ getIn(formFields, <<SA, PExtra>>) = StrV("q")
  /\ \E o \in 1..Len(observers) :
       /\ observers[o].closed
       /\ observers[o].origin = 0
       /\ observers[o].targetProps = ListV(<<PValue, PExtra>>)
       /\ Cardinality(CallsBy(updateCalls, o)) = 1
       /\ \A n \in CallsBy(updateCalls, o) : Resolved(n) /\ ValidationsOf(n) # {}

\* C15 as stated: in an analysis every subscribe call with a key path of two
\* segments or more returns fields.getIn(keyPath), also when the key path was
\* recorded by an earlier call, so the initialValue of a resolver that makes
\* only such calls is the value the non-tracking re-resolution computes on
\* the same tree.
C15_SubscribeReturnsTreeValue ==
  \A k \in 1..Len(analyses) :
    LET a == analyses[k].result
        calls == CallsMade(a)
    IN /\ \A c \in 1..Len(calls) :
            Len(calls[c]) >= 2 => a.returned[c] = getIn(a.fields, calls[c])
       /\ (\A c \in 1..Len(calls) : Len(calls[c]) >= 2) =>
            a.initialValue = dispatchPlain(a.resolver, a.fields)

\* C16: when the form announces a change of a field, every updateField call
\* issued in that step carries the value the resolver has on form.state.fields
\* as it was before the step with the announced next props at the field's
\* path, and the tree kept for validateField is that tree; the step changes
\* nothing else in form.state.fields, and no step ever changes the tree that
\* was handed to createSubscriptions.
C16_Step ==
  /\ fields' = fields
  /\ (lastStep'.kind = "change" /\ nEvents' = nEvents + 1) =>
       LET path == lastStep'.path
           nextContextProps == propsAt(formFields', path)
           nextFields == setIn(formFields, path, nextContextProps)
           new == (Len(updateCalls) + 1)..Len(updateCalls')
       IN /\ formFields' = nextFields
          /\ \A n \in new :
               /\ updateCalls'[n].propsPatch.value =
                    dispatchPlain(observers[updateCalls'[n].origin.observer].resolver,
                                  nextFields)
               /\ \E q \in 1..Len(pending') :
                    pending'[q].call = n /\ pending'[q].then.fields = nextFields

C16_ResolvedOnUpdatedTree == [][C16_Step]_vars

\* C16 witness: a.value has just changed from "x" to "y" and the observer's
\* updateField call carries "y"
C16_Witness ==
  /\ lastStep.kind = "change"
  /\ lastStep.path = <<SA>>
  /\ hasIn(fields, <<SA>>)
  /\ getIn(fields, <<SA, PValue>>) = StrV("x")
  /\ updateCalls # <<>>
  /\ LET c == updateCalls[Len(updateCalls)]
     IN /\ c.origin.kind = "observer"
        /\ ~c.origin.synthetic
        /\ c.propsPatch.value = ListV(<<StrV("y")>>)

\* the field path of a key path: all its segments but the last
FieldPathOf(keyPath) == SubSeq(keyPath, 1, Len(keyPath) - 1)

\* C17 as stated: the dot-joined key identifies the target field path:
\* distinct field paths a resolver subscribed to get distinct keys, splitting
\* a key gives back the field path subscribed to, and so every field path of
\* an accepted subscribe call has an observer or a listener bound to exactly
\* that path.
C17_KeyIdentifiesPath ==
  phase = "subscribed" =>
    \A k \in InitialAnalyses :
      LET a == analyses[k].result
          calls == CallsMade(a)
          accepted == {c \in 1..Len(calls) : Accepted(a.fields, calls[c])}
      IN /\ \A c, e \in accepted :
              FieldPathOf(calls[c]) # FieldPathOf(calls[e]) =>
                Join(FieldPathOf(calls[c])) # Join(FieldPathOf(calls[e]))
         /\ \A c \in accepted :
              /\ Split(Join(FieldPathOf(calls[c]))) = FieldPathOf(calls[c])
              /\ \/ ObserversOf(observers, a.rxPropName, FieldPathOf(calls[c])) # {}
                 \/ ListenersOf(a.rxPropName, FieldPathOf(calls[c])) # {}

\* the subscribe call c of the analysis a is the first one with its key path
FirstOfItsKind(calls, c) == \A e \in 1..(c - 1) : calls[e] # calls[c]

\* C18: every analysis starts from an empty dependency map: two analyses of
\* the same resolver on the same tree, whenever they ran, have equal maps and
\* equal initial values; every entry of a map, the delegated re-analyses'
\* included, is a field path and prop the resolver subscribed to in that very
\* invocation; and the first subscribe call for a key path is never taken for
\* a repetition.
C18_FreshMapEachCall ==
  /\ \A j, k \in 1..Len(analyses) :
       (/\ analyses[j].result.resolver = analyses[k].result.resolver
        /\ analyses[j].result.fields = analyses[k].result.fields) =>
         /\ analyses[j].result.targetsMap = analyses[k].result.targetsMap
         /\ analyses[j].result.initialValue = analyses[k].result.initialValue
  /\ \A k \in 1..Len(analyses) :
       LET a == analyses[k].result
           calls == CallsMade(a)
       IN /\ \A i \in 1..Len(a.targetsMap) :
               \A x \in 1..Len(a.targetsMap[i].props) :
                 \E c \in 1..Len(calls) :
                   /\ Len(calls[c]) > 1
                   /\ Join(FieldPathOf(calls[c])) = a.targetsMap[i].key
                   /\ calls[c][Len(calls[c])] = a.targetsMap[i].props[x]
          /\ \A c \in 1..Len(calls) :
               (Len(calls[c]) > 1 /\ FirstOfItsKind(calls, c)) =>
                 a.returned[c] = getIn(a.fields, calls[c])

\* C18 witness: the same resolver was analysed twice on the tree handed to
\* createSubscriptions, where a was not mounted, and twice again, by the
\* delegated listeners, on form.state.fields with a in it
C18_Witness ==
  \E i, j, k, l \in 1..Len(analyses) :
    /\ i < j /\ j < k /\ k < l
    /\ analyses[i].listener = 0 /\ analyses[j].listener = 0
    /\ analyses[k].listener # 0 /\ analyses[l].listener # 0
    /\ analyses[i].result.resolver = ValueResolver
    /\ \A x \in {j, k, l} : analyses[x].result.resolver = ValueResolver
    /\ analyses[i].result.fields = analyses[j].result.fields
    /\ analyses[k].result.fields = analyses[l].result.fields
    /\ analyses[i].result.returned = <<UNDEF>>
    /\ analyses[l].result.returned = <<StrV("x")>>
    /\ analyses[l].result.targetsMap = << [key |-> SA, props |-> <<PValue>>] >>

\* the target paths the initial analysis a found
TargetsFound(a) == {Split(a.targetsMap[j].key) : j \in 1..Len(a.targetsMap)}

OpenObservers(obs, rxPropName, targetPath) ==
  {i \in ObserversOf(obs, rxPropName, targetPath) : ~obs[i].closed}

OpenListeners(lst, rxPropName, targetPath) ==
  {i \in 1..Len(lst) :
     lst[i].rxPropName = rxPropName /\ lst[i].targetPath = targetPath /\ ~lst[i].closed}

\* every target the initial analysis of a reactive prop found has either one
\* open listener or one observer, never both, and the prop has no observer
\* or listener for any other path
OneBindingPerTarget(obs, lst) ==
  \A k \in InitialAnalyses :
    LET a == analyses[k].result IN
    /\ \A targetPath \in TargetsFound(a) :
         Cardinality(OpenObservers(obs, a.rxPropName, targetPath))
           + Cardinality(OpenListeners(lst, a.rxPropName, targetPath)) = 1
    /\ \A i \in 1..Len(obs) :
         obs[i].rxPropName = a.rxPropName => obs[i].targetPath \in TargetsFound(a)
    /\ \A i \in 1..Len(lst) :
         lst[i].rxPropName = a.rxPropName => lst[i].targetPath \in TargetsFound(a)

\* C19: after createSubscriptions every target of a reactive prop's initial
\* analysis has exactly one of an open delegated listener and a change
\* observer, and no other path has either; a registration event closes the
\* listeners waiting for it and gives each exactly one observer for the same
\* prop and target; change events and resolving updateField calls add and
\* remove nothing, whatever paths the re-resolution reads.
C19_Step ==
  /\ phase' = "subscribed" => OneBindingPerTarget(observers', listeners')
  /\ (lastStep'.kind = "registered" /\ nEvents' = nEvents + 1) =>
       /\ Len(listeners') = Len(listeners)
       /\ SubSeq(observers', 1, Len(observers)) = observers
       /\ \A i \in 1..Len(listeners) :
            IF ~listeners[i].closed
               /\ listeners[i].event = fieldRegisteredEvent(lastStep'.path)
            THEN /\ listeners'[i].closed
                 /\ Cardinality({o \in (Len(observers) + 1)..Len(observers') :
                                   /\ observers'[o].origin = i
                                   /\ observers'[o].rxPropName = listeners[i].rxPropName
                                   /\ observers'[o].targetPath = listeners[i].targetPath}) = 1
            ELSE listeners'[i].closed = listeners[i].closed
       /\ \A o \in (Len(observers) + 1)..Len(observers') :
            /\ observers'[o].origin \in 1..Len(listeners)
            /\ ~listeners[observers'[o].origin].closed
  /\ lastStep'.kind \in {"change", "resolved"} =>
       /\ observers' = observers
       /\ listeners' = listeners

C19_OneBindingPerTarget == [][C19_Step]_vars

\* C19 witness: the resolver read only a.value in the initial analysis, a has
\* registered since and the re-resolution read g.c.value as well: a has its
\* observer, the listener is closed, and nothing is bound to g.c
C19_Witness ==
  /\ fieldProps.reactiveProps = ListV(<< [name |-> RxLabel, resolver |-> BranchingResolver] >>)
  /\ lastStep.kind = "resolved"
  /\ Len(listeners) = 1
  /\ listeners[1].closed
  /\ Len(observers) = 1
  /\ observers[1].targetPath = <<SA>>
  /\ \E k \in InitialAnalyses : TargetsFound(analyses[k].result) = {<<SA>>}
  /\ \E n \in 1..Len(updateCalls) :
       /\ updateCalls[n].origin.kind = "observer"
       /\ Len(updateCalls[n].propsPatch.value.items) = 2

\* C20: updateField calls are issued in the order of the events that cause
\* them: the calls of a step are appended to the calls made so far, one for
\* every open observer of the changed field whose tracked props differ, and
\* each is pending when the step ends, behind the calls that were pending
\* before; an event step calls no validateField, and the step in which a
\* promise resolves issues no updateField call.
C20_Step ==
  /\ Len(updateCalls) <= Len(updateCalls')
  /\ SubSeq(updateCalls', 1, Len(updateCalls)) = updateCalls
  /\ lastStep'.kind = "resolved" => updateCalls' = updateCalls
  /\ (lastStep'.kind \in {"change", "registered"} /\ nEvents' = nEvents + 1) =>
       LET new == (Len(updateCalls) + 1)..Len(updateCalls')
       IN /\ validateCalls' = validateCalls
          /\ Len(pending') = Len(pending) + Cardinality(new)
          /\ SubSeq(pending', 1, Len(pending)) = pending
          /\ \A q \in (Len(pending) + 1)..Len(pending') :
               pending'[q].call = Len(updateCalls) + (q - Len(pending))
          /\ \A o \in 1..Len(observers') :
               Cardinality(CallsBy(updateCalls', o) \cap new) <= 1
          /\ lastStep'.kind = "change" =>
               \A o \in 1..Len(observers) :
                 (/\ ~observers[o].closed
                  /\ observers[o].targetPath = lastStep'.path
                  /\ Differs(observers[o], propsAt(formFields, lastStep'.path),
                             propsAt(formFields', lastStep'.path))) =>
                   \E n \in CallsBy(updateCalls', o) \cap new :
                     \A m \in CallsBy(updateCalls, o) : m < n

C20_CallsInEventOrder == [][C20_Step]_vars

\* C20 witness: a.value changed and then a.extra, the observer's call for the
\* first change was still pending when the second was issued, and the call
\* for the first change comes first
C20_Witness ==
  \E o \in 1..Len(observers) :
    \E m, n \in CallsBy(updateCalls, o) :
      /\ m < n
      /\ ~Resolved(m)
      /\ ~Resolved(n)
      /\ updateCalls[m].propsPatch.value = ListV(<<StrV("y"), StrV("p")>>)
      /\ updateCalls[n].propsPatch.value = ListV(<<StrV("y"), StrV("q")>>)

\* C21: every resolver invocation gets the subscriber's props as they were
\* handed to createSubscriptions: the analyses, the delegated ones included,
\* get that Map itself and the re-resolutions of the change observers its
\* toJS() form, whatever has happened to the subscriber in form.state.fields
\* since; and every updateField call is for the fieldPath of those props.
C21_CapturedFieldProps ==
  /\ \A k \in 1..Len(analyses) :
       analyses[k].result.fieldProps = [immutable |-> fieldProps]
  /\ \A n \in 1..Len(updateCalls) :
       /\ updateCalls[n].fieldPath = fieldProps.fieldPath
       /\ updateCalls[n].origin.kind = "observer" =>
            updateCalls[n].origin.fieldProps = [plain |-> fieldProps]

\* C21 witness: the subscriber's props in form.state.fields were no longer
\* the captured ones (an updateField had patched them) when a delegated
\* listener ran its re-analysis and its observer re-resolved
C21_Witness ==
  \E n \in 1..Len(updateCalls) :
    /\ updateCalls[n].origin.kind = "observer"
    /\ updateCalls[n].origin.synthetic
    /\ updateCalls[n].origin.subscriberNow # fieldProps.props
    /\ RxLabel \in DOMAIN updateCalls[n].origin.subscriberNow
    /\ \E k \in 1..Len(analyses) : analyses[k].listener # 0

====
